---------------------------- MODULE Spec2Model ----------------------------
(***************************************************************************)
(* A model of wordle.py: the hint model (Hint.parse_guess, _merge_with,    *)
(* merge_hints, check_word), the game state (GameInfo.apply_hints), the    *)
(* worst-case search (apply_hypo_hint, hypo_worst_hint, suggest_guess),    *)
(* the pool that evaluates the search, and the interactive driver loop.    *)
(*                                                                         *)
(* A letter is a one-character string, a word a sequence of LENGTH         *)
(* letters, a colour string a sequence of one-character strings.  A Hint  *)
(* is a record [min_count, max_count, indexes]; indexes is a sequence of   *)
(* LENGTH slots, "True", "False" or "None" (Python's Optional[bool]).      *)
(* A HintSet (Dict[str, Hint]) is a function from a set of letters.        *)
(***************************************************************************)
EXTENDS Integers, Sequences, FiniteSets, TLC

VARIABLES
    CORPUS,      \* the module-level word set (line 30)
    game_info,   \* the driver's GameInfo: [words, hints]
    word,        \* the driver's current guess word
    colors,      \* the string read by input()
    guess,       \* the HintSet parsed from (word, colors)
    pc,          \* the driver's position
    error,       \* the exception that ended the driver, or "none"
    secret,      \* the word the truthful feedback is scored against
    rounds,      \* number of truthful rounds played
    payloads,    \* suggest_guess: the payload words, in list order
    taken,       \* pool: number of chunks handed to workers
    running,     \* pool: the chunks being evaluated (sets of chunk numbers)
    outqueue,    \* pool: results delivered to the consumer, in arrival order
    best,        \* the consumer's running minimum (min over the iterator)
    left_hints,  \* the arguments and the result of one merge_hints call
    right_hints,
    merged

poolVars == <<payloads, taken, running, outqueue, best>>

mergeVars == <<left_hints, right_hints, merged>>

vars == <<CORPUS, game_info, word, colors, guess, pc, error, secret, rounds,
          poolVars, mergeVars>>

-----------------------------------------------------------------------------
(* Program constants *)

LENGTH == 5

CHUNKSIZE == 4

GREEN == "g"

YELLOW == "y"

BLACK == "b"

HintType == {GREEN, YELLOW, BLACK}

\* ord() of the letters the model uses; str comparison is by code point.
Ord ==
    [c \in {"a", "d", "e", "h", "i", "l", "o", "r", "s", "t", "v"} |->
        CASE c = "a" -> 97  [] c = "d" -> 100 [] c = "e" -> 101
          [] c = "h" -> 104 [] c = "i" -> 105 [] c = "l" -> 108
          [] c = "o" -> 111 [] c = "r" -> 114 [] c = "s" -> 115
          [] c = "t" -> 116 [] c = "v" -> 118]

None == "None"

Range(f) == {f[i] : i \in DOMAIN f}

Max(S) == CHOOSE x \in S : \A y \in S : y <= x

MaxOf(x, y) == IF x >= y THEN x ELSE y

MinOf(x, y) == IF x <= y THEN x ELSE y

\* itertools.product of the three colours, LENGTH times (as a set: the search
\* takes a max over it, so the list order does not matter).
POSSIBLE_GUESS_RESULTS == [1..LENGTH -> HintType]

-----------------------------------------------------------------------------
(* Hint *)

\* str.count(letter)
Count(w, letter) == Cardinality({i \in DOMAIN w : w[i] = letter})

\* ParseLetter with a black occurrence read as "the letter is not in the
\* word", whatever the other occurrences of the letter say.
ParseLetterBlackIsNone(w, cs, letter) ==
    LET prompts == {i \in 1..LENGTH : w[i] = letter}
        counts(t) == Cardinality({i \in prompts : cs[i] = t})
        min_count == counts(GREEN) + counts(YELLOW)
        max_count == IF counts(BLACK) # 0 THEN 0 ELSE LENGTH
        indexes == [i \in 1..LENGTH |->
                      IF i \in prompts
                        THEN (IF cs[i] = GREEN THEN "True" ELSE "False")
                        ELSE None]
    IN  [min_count |-> min_count, max_count |-> max_count, indexes |-> indexes]

\* ParseLetter with only the green occurrences counted.
ParseLetterGreenOnly(w, cs, letter) ==
    LET prompts == {i \in 1..LENGTH : w[i] = letter}
        counts(t) == Cardinality({i \in prompts : cs[i] = t})
        min_count == counts(GREEN)
        max_count == IF counts(BLACK) # 0 THEN min_count ELSE LENGTH
        indexes == [i \in 1..LENGTH |->
                      IF i \in prompts
                        THEN (IF cs[i] = GREEN THEN "True" ELSE "False")
                        ELSE None]
    IN  [min_count |-> min_count, max_count |-> max_count, indexes |-> indexes]

\* The Hint that parse_guess builds for one letter of the guess.
ParseLetter(w, cs, letter) ==
    LET prompts == {i \in 1..LENGTH : w[i] = letter}
        counts(t) == Cardinality({i \in prompts : cs[i] = t})
        min_count == counts(GREEN) + counts(YELLOW)
        max_count == IF counts(BLACK) # 0 THEN min_count ELSE LENGTH
        indexes == [i \in 1..LENGTH |->
                      IF i \in prompts
                        THEN (IF cs[i] = GREEN THEN "True" ELSE "False")
                        ELSE None]
    IN  [min_count |-> min_count, max_count |-> max_count, indexes |-> indexes]

\* Hint.parse_guess on a colour string it accepts: only the first LENGTH
\* characters of colors are read.
parse_guess(w, cs) ==
    [letter \in {w[i] : i \in 1..LENGTH} |-> ParseLetter(w, cs, letter)]

\* The exception parse_guess raises on (word, colors), or "none": the list
\* comprehension reads colors[i] and converts it, for i = 0 .. LENGTH-1 in turn.
ParseError(cs) ==
    LET bad == {i \in 1..LENGTH : i > Len(cs) \/ cs[i] \notin HintType}
    IN  IF bad = {} THEN "none"
        ELSE LET i == CHOOSE j \in bad : \A k \in bad : j <= k
             IN  IF i > Len(cs) THEN "IndexError" ELSE "ValueError"

_merge_with(self, other) ==
    [min_count |-> MaxOf(self.min_count, other.min_count),
     max_count |-> MinOf(self.max_count, other.max_count),
     indexes   |-> [i \in 1..LENGTH |->
                      IF other.indexes[i] = None THEN self.indexes[i]
                                                 ELSE other.indexes[i]]]

merge_hints(left, right) ==
    [letter \in DOMAIN left \cup DOMAIN right |->
        IF letter \notin DOMAIN left THEN right[letter]
        ELSE IF letter \notin DOMAIN right THEN left[letter]
        ELSE _merge_with(left[letter], right[letter])]

\* check_word without the upper bound of the count.
check_word_no_max(self, letter, w) ==
    /\ self.min_count <= Count(w, letter)
    /\ \A idx \in 1..LENGTH :
         /\ ~(self.indexes[idx] = "True" /\ w[idx] # letter)
         /\ ~(self.indexes[idx] = "False" /\ w[idx] = letter)

check_word(self, letter, w) ==
    /\ self.min_count <= Count(w, letter)
    /\ Count(w, letter) <= self.max_count
    /\ \A idx \in 1..LENGTH :
         /\ ~(self.indexes[idx] = "True" /\ w[idx] # letter)
         /\ ~(self.indexes[idx] = "False" /\ w[idx] = letter)

-----------------------------------------------------------------------------
(* GameInfo *)

GameInfo(words, hints) == [words |-> words, hints |-> hints]

\* The loop "for letter, hint in new_hints.items(): new_words = {w for w in
\* new_words if hint.check_word(letter, w)}", one letter at a time.
RECURSIVE FilterWords(_, _, _)
FilterWords(hints, letters, words) ==
    IF letters = {} THEN words
    ELSE LET letter == CHOOSE l \in letters : TRUE
         IN  FilterWords(hints, letters \ {letter},
                         {w \in words : check_word(hints[letter], letter, w)})

apply_hints(self, g) ==
    LET new_hints == merge_hints(self.hints, g)
    IN  GameInfo(FilterWords(new_hints, DOMAIN new_hints, self.words), new_hints)

apply_hypo_hint(curr_hints, curr_words, g) ==
    LET new_hints == merge_hints(curr_hints, g)
    IN  Cardinality(FilterWords(new_hints, DOMAIN new_hints, curr_words))

\* The pair (word, worst-case count) as a record.
hypo_worst_hint(payload) ==
    [word  |-> payload[3],
     score |-> Max({apply_hypo_hint(payload[1], payload[2],
                                    parse_guess(payload[3], guess_result)) :
                    guess_result \in POSSIBLE_GUESS_RESULTS})]

\* str < str for two words of equal length
RECURSIVE StrLess(_, _)
StrLess(u, v) ==
    IF u = <<>> \/ v = <<>> THEN u = <<>> /\ v # <<>>
    ELSE IF Ord[Head(u)] # Ord[Head(v)] THEN Ord[Head(u)] < Ord[Head(v)]
    ELSE StrLess(Tail(u), Tail(v))

\* The key without the minus sign: a word that is no candidate comes first.
KeyNoMinus(self, r) == <<r.score, IF r.word \in self.words THEN 1 ELSE 0, r.word>>

\* The key without the word: results of equal score and membership tie.
KeyNoWord(self, r) == <<r.score, IF r.word \in self.words THEN -1 ELSE 0, <<>>>>

\* key=lambda r: (r[1], -(r[0] in self.words), r[0])
Key(self, r) == <<r.score, IF r.word \in self.words THEN -1 ELSE 0, r.word>>

\* tuple < tuple on two keys
KeyLess(k1, k2) ==
    \/ k1[1] < k2[1]
    \/ k1[1] = k2[1] /\ k1[2] < k2[2]
    \/ k1[1] = k2[1] /\ k1[2] = k2[2] /\ StrLess(k1[3], k2[3])

\* suggest_guess with max in place of min.
suggest_guess_max(self) ==
    LET results == {hypo_worst_hint(<<self.hints, self.words, w>>) : w \in CORPUS}
    IN  (CHOOSE r \in results :
            \A r2 \in results : ~KeyLess(Key(self, r), Key(self, r2))).word

\* min(iterable, key=...) over the results of all payloads
suggest_guess(self) ==
    LET results == {hypo_worst_hint(<<self.hints, self.words, w>>) : w \in CORPUS}
    IN  (CHOOSE r \in results :
            \A r2 \in results : ~KeyLess(Key(self, r2), Key(self, r))).word

-----------------------------------------------------------------------------
(* Bounds and input sets *)

\* Largest corpus the driver is started with.
MaxCorpus == 4

soare == <<"s", "o", "a", "r", "e">>

\* The words a corpus is drawn from.
WordPool ==
    { <<"s", "h", "a", "l", "e">>, <<"s", "h", "a", "v", "e">>,
      <<"s", "h", "a", "d", "e">>, <<"v", "a", "l", "i", "d">>,
      <<"l", "e", "a", "s", "e">>, <<"t", "e", "a", "s", "e">> }

Corpora == {S \in SUBSET WordPool : Cardinality(S) <= MaxCorpus}

NoHints == <<>>

NoGame == GameInfo({}, NoHints)

\* min() has taken no item yet.
NoResult == [word |-> <<>>, score |-> -1]

\* The variables of the pool and of the single merge call, idle.
PoolIdle ==
    /\ payloads = <<>>
    /\ taken = 0
    /\ running = {}
    /\ outqueue = <<>>
    /\ best = NoResult

MergeIdle ==
    /\ left_hints = NoHints
    /\ right_hints = NoHints
    /\ merged = NoHints

-----------------------------------------------------------------------------
(* The driver, lines 151-165 *)

\* Module load: CORPUS is read from the word list; nothing else exists yet.
Init ==
    /\ CORPUS \in Corpora
    /\ game_info = NoGame
    /\ word = <<>>
    /\ colors = <<>>
    /\ guess = NoHints
    /\ pc = "start"
    /\ error = "none"
    /\ secret = <<>>
    /\ rounds = 0
    /\ PoolIdle
    /\ MergeIdle

\* Lines 152-154: game_info = GameInfo(CORPUS, {}); word = "soare".
Construct ==
    /\ pc = "start"
    /\ game_info' = GameInfo(CORPUS, NoHints)
    /\ word' = soare
    /\ pc' = "try"
    /\ UNCHANGED <<CORPUS, colors, guess, error, secret, rounds, poolVars,
                   mergeVars>>

\* Lines 157-158: print the guess and read the colours typed by the user.
ReadColors(inputs) ==
    /\ pc = "try"
    /\ colors' \in inputs
    /\ pc' = "parse"
    /\ UNCHANGED <<CORPUS, game_info, word, guess, error, secret, rounds, poolVars,
                   mergeVars>>

\* Line 159: guess = Hint.parse_guess(word, colors); an exception is not
\* caught and ends the program with a traceback.
ParseGuess ==
    /\ pc = "parse"
    /\ IF ParseError(colors) # "none"
         THEN /\ error' = ParseError(colors)
              /\ pc' = "crashed"
              /\ UNCHANGED guess
         ELSE /\ guess' = parse_guess(word, colors)
              /\ pc' = "apply"
              /\ UNCHANGED error
    /\ UNCHANGED <<CORPUS, game_info, word, colors, secret, rounds, poolVars,
                   mergeVars>>

\* Lines 160-164: game_info = game_info.apply_hints(guess); print the words
\* left; leave the loop when at most one is left.
ApplyHints ==
    /\ pc = "apply"
    /\ game_info' = apply_hints(game_info, guess)
    /\ pc' = IF Cardinality(game_info'.words) <= 1 THEN "done" ELSE "suggest"
    /\ UNCHANGED <<CORPUS, word, colors, guess, error, secret, rounds, poolVars,
                   mergeVars>>

\* Line 165: word = game_info.suggest_guess().
SuggestGuess ==
    /\ pc = "suggest"
    /\ word' = suggest_guess(game_info)
    /\ pc' = "try"
    /\ UNCHANGED <<CORPUS, game_info, colors, guess, error, secret, rounds, poolVars,
                   mergeVars>>

Next ==
    \/ Construct
    \/ ReadColors(POSSIBLE_GUESS_RESULTS)
    \/ ParseGuess
    \/ ApplyHints
    \/ SuggestGuess

Spec == Init /\ [][Next]_vars

\* Line 165 as the loop sees it: the search returns a word of the corpus.
\* (Every SuggestGuess step is such a step, and both are enabled exactly at
\* pc = "suggest"; fairness is stated on this one, which needs no search to
\* tell whether it is enabled.)
SearchReturns ==
    /\ pc = "suggest"
    /\ word' \in CORPUS
    /\ pc' = "try"
    /\ UNCHANGED <<CORPUS, game_info, colors, guess, error, secret, rounds,
                   poolVars, mergeVars>>

\* The loop is synchronous: a step that can be taken is taken, the user
\* answers every prompt, and the search, a bounded computation, returns.
FairSpec ==
    /\ Spec
    /\ WF_vars(Construct \/ ReadColors(POSSIBLE_GUESS_RESULTS) \/ ParseGuess \/ ApplyHints)
    /\ WF_vars(SearchReturns)

-----------------------------------------------------------------------------
(* Typed input: what the user may type at the prompt *)

\* How many characters shorter or longer than LENGTH a typed string may be.
MaxSlack == 1

\* The characters typed: the three colours and one that is none of them.
Typed == HintType \cup {"x"}

TypedColors ==
    UNION {[1..n -> Typed] : n \in (LENGTH - MaxSlack)..(LENGTH + MaxSlack)}

\* The corpus of the typed-input runs.
InputCorpus == { <<"l", "e", "a", "s", "e">>, <<"t", "e", "a", "s", "e">> }

InitInput ==
    /\ CORPUS = InputCorpus
    /\ game_info = NoGame
    /\ word = <<>>
    /\ colors = <<>>
    /\ guess = NoHints
    /\ pc = "start"
    /\ error = "none"
    /\ secret = <<>>
    /\ rounds = 0
    /\ PoolIdle
    /\ MergeIdle

NextInput ==
    \/ Construct
    \/ ReadColors(TypedColors)
    \/ ParseGuess
    \/ ApplyHints
    \/ SuggestGuess

SpecInput == InitInput /\ [][NextInput]_vars

-----------------------------------------------------------------------------
(* parse_guess alone, on every guess word and pattern *)

sassy == <<"s", "a", "s", "s", "y">>

aabbc == <<"a", "a", "b", "b", "c">>

eases == <<"e", "a", "s", "e", "s">>

GuessWords == WordPool \cup {soare, sassy, aabbc, eases}

InitParse ==
    /\ CORPUS = {}
    /\ game_info = NoGame
    /\ word \in GuessWords
    /\ colors \in POSSIBLE_GUESS_RESULTS
    /\ guess = NoHints
    /\ pc = "parse"
    /\ error = "none"
    /\ secret = <<>>
    /\ rounds = 0
    /\ PoolIdle
    /\ MergeIdle

SpecParse == InitParse /\ [][ParseGuess]_vars

-----------------------------------------------------------------------------
(* Truthful feedback: every guess is scored against a secret word *)

\* The game's scoring of guess g against secret s: green where the letters
\* coincide; a misplaced letter is yellow while unmatched copies of it remain
\* in s (counted left to right), otherwise black.
Score(g, s) ==
    [i \in 1..LENGTH |->
        IF g[i] = s[i] THEN GREEN
        ELSE LET c == g[i]
                 unmatched == Cardinality({j \in 1..LENGTH : s[j] = c /\ g[j] # c})
                 earlier == Cardinality({j \in 1..(i - 1) : g[j] = c /\ s[j] # c})
             IN  IF earlier < unmatched THEN YELLOW ELSE BLACK]

\* Number of guesses of a truthful game.
MaxGuesses == 3

\* The guess words of a truthful game; they need not be corpus words.
TruthGuesses == WordPool \cup {soare, eases}

InitTruth ==
    /\ CORPUS \in Corpora \ {{}}
    /\ secret \in CORPUS
    /\ rounds = 0
    /\ game_info = GameInfo(CORPUS, NoHints)
    /\ word = <<>>
    /\ colors = <<>>
    /\ guess = NoHints
    /\ pc = "play"
    /\ error = "none"
    /\ PoolIdle
    /\ MergeIdle

\* One round of lines 157-160 with the guess g and its truthful colours.
TruthfulRound(g) ==
    /\ pc = "play"
    /\ rounds < MaxGuesses
    /\ word' = g
    /\ colors' = Score(g, secret)
    /\ guess' = parse_guess(g, colors')
    /\ game_info' = apply_hints(game_info, guess')
    /\ rounds' = rounds + 1
    /\ UNCHANGED <<CORPUS, pc, error, secret, poolVars, mergeVars>>

NextTruth == \E g \in TruthGuesses : TruthfulRound(g)

SpecTruth == InitTruth /\ [][NextTruth]_vars

-----------------------------------------------------------------------------
(* One call of Hint.merge_hints *)

tease == <<"t", "e", "a", "s", "e">>

lease == <<"l", "e", "a", "s", "e">>

\* HintSets as parse_guess makes them
ParsedHints(w) == {parse_guess(w, cs) : cs \in POSSIBLE_GUESS_RESULTS}

InitMerge ==
    /\ CORPUS = WordPool
    /\ game_info = NoGame
    /\ word = <<>>
    /\ colors = <<>>
    /\ guess = NoHints
    /\ pc = "merge"
    /\ error = "none"
    /\ secret = <<>>
    /\ rounds = 0
    /\ PoolIdle
    /\ left_hints \in ParsedHints(tease)
    /\ right_hints \in ParsedHints(tease) \cup ParsedHints(lease)
    /\ merged = NoHints

MergeHints ==
    /\ pc = "merge"
    /\ merged' = merge_hints(left_hints, right_hints)
    /\ pc' = "merged"
    /\ UNCHANGED <<CORPUS, game_info, word, colors, guess, error, secret,
                   rounds, poolVars, left_hints, right_hints>>

SpecMerge == InitMerge /\ [][MergeHints]_vars

-----------------------------------------------------------------------------
(* suggest_guess on the pool, lines 143-148 *)

\* Number of pool processes, mp.cpu_count().
NumWorkers == 2

\* All orders in which a list can hold the elements of S.
Orders(S) ==
    {f \in [1..Cardinality(S) -> S] : \A i, j \in DOMAIN f : f[i] = f[j] => i = j}

\* The tasks imap_unordered cuts the payload list into: task k holds the
\* payloads (k-1)*CHUNKSIZE+1 .. k*CHUNKSIZE.
NumChunks(ps) == (Len(ps) + CHUNKSIZE - 1) \div CHUNKSIZE

Chunk(ps, k) == SubSeq(ps, (k - 1) * CHUNKSIZE + 1, MinOf(k * CHUNKSIZE, Len(ps)))

\* mapstar: the results of one task, in the order of its payloads.
ChunkResults(self, ps, k) ==
    [i \in 1..Len(Chunk(ps, k)) |->
        hypo_worst_hint(<<self.hints, self.words, Chunk(ps, k)[i]>>)]

\* One step of min(iterable, key=...): the first minimal item is kept.
MinStep(self, b, r) ==
    IF b = NoResult THEN r
    ELSE IF KeyLess(Key(self, r), Key(self, b)) THEN r ELSE b

\* The corpus of the pool runs: two tasks, of CHUNKSIZE words and of one.
PoolCorpus == WordPool \ { <<"s", "h", "a", "d", "e">> }

\* The states in which the driver calls suggest_guess after the first guess.
SearchStates ==
    {g \in {apply_hints(GameInfo(PoolCorpus, NoHints), parse_guess(soare, cs)) :
              cs \in POSSIBLE_GUESS_RESULTS} : Cardinality(g.words) >= 2}

InitPool ==
    /\ CORPUS = PoolCorpus
    /\ game_info \in SearchStates
    /\ word = soare
    /\ colors = <<>>
    /\ guess = NoHints
    /\ pc = "suggest"
    /\ error = "none"
    /\ secret = <<>>
    /\ rounds = 0
    /\ PoolIdle
    /\ MergeIdle

\* Line 144: the payload list, in the iteration order of the set CORPUS.
StartSearch ==
    /\ pc = "suggest"
    /\ payloads' \in Orders(CORPUS)
    /\ taken' = 0
    /\ running' = {}
    /\ outqueue' = <<>>
    /\ best' = NoResult
    /\ pc' = "search"
    /\ UNCHANGED <<CORPUS, game_info, word, colors, guess, error, secret,
                   rounds, mergeVars>>

\* A free pool process takes the next task from the task queue.
TakeChunk ==
    /\ pc = "search"
    /\ taken < NumChunks(payloads)
    /\ Cardinality(running) < NumWorkers
    /\ taken' = taken + 1
    /\ running' = running \cup {taken + 1}
    /\ UNCHANGED <<CORPUS, game_info, word, colors, guess, pc, error, secret,
                   rounds, payloads, outqueue, best, mergeVars>>

\* A pool process finishes its task; the results reach the iterator.
CompleteChunk(k) ==
    /\ pc = "search"
    /\ k \in running
    /\ running' = running \ {k}
    /\ outqueue' = outqueue \o ChunkResults(game_info, payloads, k)
    /\ UNCHANGED <<CORPUS, game_info, word, colors, guess, pc, error, secret,
                   rounds, payloads, taken, best, mergeVars>>

\* min() takes the next item of the iterator.
Consume ==
    /\ pc = "search"
    /\ outqueue # <<>>
    /\ best' = MinStep(game_info, best, Head(outqueue))
    /\ outqueue' = Tail(outqueue)
    /\ UNCHANGED <<CORPUS, game_info, word, colors, guess, pc, error, secret,
                   rounds, payloads, taken, running, mergeVars>>

\* The iterator is exhausted: suggest_guess returns min(...)[0].
FinishSearch ==
    /\ pc = "search"
    /\ taken = NumChunks(payloads)
    /\ running = {}
    /\ outqueue = <<>>
    /\ word' = best.word
    /\ pc' = "try"
    /\ UNCHANGED <<CORPUS, game_info, colors, guess, error, secret, rounds,
                   poolVars, mergeVars>>

NextPool ==
    \/ StartSearch
    \/ TakeChunk
    \/ \E k \in running : CompleteChunk(k)
    \/ Consume
    \/ FinishSearch

SpecPool == InitPool /\ [][NextPool]_vars

-----------------------------------------------------------------------------
(* Properties *)

\* The candidate filter of the spec: w is consistent with every Hint of h.
Passes(h, w) == \A c \in DOMAIN h : check_word(h[c], c, w)

CountsInRange(h) == 0 <= h.min_count /\ h.min_count <= h.max_count /\ h.max_count <= LENGTH

\* A typed string that is not LENGTH colours.
Malformed(cs) == Len(cs) # LENGTH \/ \E i \in DOMAIN cs : cs[i] \notin HintType

\* C1: under truthful feedback the secret word stays a candidate after every
\* apply_feedback, whatever the guesses, repeated letters included.
C1_SecretSurvives == pc = "play" => secret \in game_info.words

\* C1 witness: a second guess with a repeated letter, one copy black and one
\* not, has been applied, words were dropped, and the secret is still there.
C1_Witness ==
    /\ pc = "play"
    /\ rounds >= 2
    /\ \E i, j \in 1..LENGTH :
         /\ word[i] = word[j]
         /\ colors[i] = BLACK
         /\ colors[j] # BLACK
    /\ secret \in game_info.words
    /\ Cardinality(game_info.words) < Cardinality(CORPUS)

\* C2: the word suggest_guess returns has the least worst-case score of the
\* whole corpus; at equal score a candidate goes before a non-candidate, and
\* among the rest the lexicographically smallest word is returned.
C2_MinimaxChoice ==
    (pc = "try" /\ DOMAIN game_info.hints # {}) =>
        LET Worst(w) ==
                Max({Cardinality({c \in game_info.words :
                        Passes(merge_hints(game_info.hints, parse_guess(w, f)), c)}) :
                     f \in POSSIBLE_GUESS_RESULTS})
            mine == Worst(word)
        IN  /\ word \in CORPUS
            /\ \A v \in CORPUS \ {word} :
                 LET other == Worst(v)
                 IN  /\ mine <= other
                     /\ (mine = other /\ v \in game_info.words) =>
                            word \in game_info.words
                     /\ (mine = other /\ (v \in game_info.words <=> word \in game_info.words)) =>
                            StrLess(word, v)

\* C2 witness: a suggestion was made where a word that is no candidate any
\* more has the same worst-case score as the suggested candidate.
C2_Witness ==
    /\ pc = "try"
    /\ DOMAIN game_info.hints # {}
    /\ word \in game_info.words
    /\ \E v \in CORPUS \ game_info.words :
         hypo_worst_hint(<<game_info.hints, game_info.words, v>>).score =
           hypo_worst_hint(<<game_info.hints, game_info.words, word>>).score

\* C3: whatever the order of the payload list and the order in which the
\* tasks complete, the pool's search returns the word of the sequential min,
\* and it leaves the HintSet and the candidate set as they were.
C3_OrderIndependent ==
    /\ (pc = "try" /\ payloads # <<>>) => word = suggest_guess(game_info)
    /\ game_info \in SearchStates
    /\ CORPUS = PoolCorpus

\* C3 witness: a finished search of two tasks whose returned word is the
\* payload of the second task, the last of the list.
C3_Witness ==
    /\ pc = "try"
    /\ payloads # <<>>
    /\ taken = 2
    /\ word = payloads[Len(payloads)]
    /\ best.word = word

\* C4: the words passing merge_hints(A, B) pass A (as claimed): the merge is
\* never looser than its left argument.
C4_MergeMonotone ==
    pc = "merged" => \A w \in CORPUS : Passes(merged, w) => Passes(left_hints, w)

\* C5 (as claimed): every Hint of the HintSet has 0 <= min_count <= max_count
\* <= LENGTH.
C5_CountsInRange ==
    \A c \in DOMAIN game_info.hints : CountsInRange(game_info.hints[c])

\* C5 (amended): every Hint of the HintSet has both counts in 0..LENGTH, and
\* min_count <= max_count while a candidate is left; the Hints parse_guess
\* makes have 0 <= min_count <= max_count <= LENGTH.
C5_CountsInRangeWhileCandidates ==
    /\ \A c \in DOMAIN game_info.hints :
         LET h == game_info.hints[c]
         IN  /\ h.min_count \in 0..LENGTH
             /\ h.max_count \in 0..LENGTH
             /\ game_info.words # {} => h.min_count <= h.max_count
    /\ \A c \in DOMAIN guess : CountsInRange(guess[c])

\* C5 witness: after the feedback on a suggested guess a candidate is left,
\* and the Hint of a letter of both guesses is a merged one: it is not the
\* Hint parsed from the last guess.
C5_Witness ==
    /\ pc \in {"suggest", "done"}
    /\ word # soare
    /\ game_info.words # {}
    /\ \E c \in DOMAIN game_info.hints \cap DOMAIN guess \cap Range(soare) :
         /\ game_info.hints[c].min_count >= 1
         /\ game_info.hints[c] # guess[c]

\* C6: parse_guess has an entry for exactly the letters of the guess, with
\* min_count = k (green or yellow occurrences) and max_count = k if some
\* occurrence is black, else LENGTH.
C6_CountRule ==
    pc = "apply" =>
        /\ DOMAIN guess = Range(word)
        /\ \A c \in Range(word) :
             LET k == Cardinality({i \in 1..LENGTH :
                         word[i] = c /\ colors[i] \in {GREEN, YELLOW}})
                 m == Cardinality({i \in 1..LENGTH : word[i] = c /\ colors[i] = BLACK})
             IN  /\ guess[c].min_count = k
                 /\ guess[c].max_count = IF m > 0 THEN k ELSE LENGTH

\* C6 witness: "aabbc" with both a's black gives a the counts 0, 0, and the
\* b's, one green and one black, give b the counts 1, 1.
C6_Witness ==
    /\ pc = "apply"
    /\ word = aabbc
    /\ colors[1] = BLACK /\ colors[2] = BLACK
    /\ colors[3] = GREEN /\ colors[4] = BLACK
    /\ guess["a"].min_count = 0 /\ guess["a"].max_count = 0
    /\ guess["b"].min_count = 1 /\ guess["b"].max_count = 1

\* C7 (as claimed): a typed string that is malformed is answered with an
\* error, and no GameInfo is derived from it.
C7_MalformedRejected ==
    [][/\ (pc = "parse" /\ Malformed(colors)) =>
            (pc' = "crashed" /\ error' # "none")
       /\ (pc # "start" /\ Malformed(colors)) => game_info' = game_info]_vars

\* C8 (as claimed): with an empty corpus the driver reports an error when it
\* constructs the GameInfo, before it asks for any colours.
C8_EmptyCorpusReported == (CORPUS = {} /\ pc # "start") => error # "none"

\* C9 (as claimed): the candidate set only shrinks, and it is exactly the set
\* of corpus words that pass check_word for every Hint of the HintSet.
C9_CandidatesExact ==
    /\ [][pc # "start" => game_info'.words \subseteq game_info.words]_vars
    /\ [](pc # "start" =>
            game_info.words = {w \in CORPUS : Passes(game_info.hints, w)})

\* C10: a suggested guess has a worst-case score below the number of
\* candidates, applying any colours to it shrinks the candidate set, and the
\* loop ends.
C10_LoopTerminates ==
    /\ []((pc = "try" /\ DOMAIN game_info.hints # {}) =>
            /\ Cardinality(game_info.words) >= 2
            /\ hypo_worst_hint(<<game_info.hints, game_info.words, word>>).score
                 < Cardinality(game_info.words))
    /\ [][(pc = "apply" /\ DOMAIN game_info.hints # {}) =>
            Cardinality(game_info'.words) < Cardinality(game_info.words)]_vars
    /\ <>(pc = "done")

\* C10 witness: the loop has ended after two suggested guesses.
C10_Witness ==
    /\ pc = "done"
    /\ word # soare
    /\ Cardinality(CORPUS) >= 3
    /\ \E c \in DOMAIN game_info.hints : c \notin Range(soare) /\ c \notin Range(word)

=============================================================================
